---- MODULE Spec2Model ----
(***************************************************************************)
(* Model of the Java code that the patch scripts of this repository write  *)
(* into the booking backend: the Stripe payment gateway operations         *)
(* (fix_stripe_gateway.py, update_stripe_gateway.py) and the profile       *)
(* update of the user service (apply_changes.py).                          *)
(***************************************************************************)
EXTENDS Integers, Sequences, FiniteSets, TLC

\* ------------------------------------------------------------------ bounds
MaxUnscaled == 3
MaxScale == 3
MaxInvocations == 2
NumThreads == 2
MaxUpdates == 2
MaxChunks == 4
MaxLines == 3

\* ------------------------------------------------------------ Java values
\* The null reference of an object-typed argument or field.
NULL == "null-reference"

\* java.lang.String values that the code converts are sequences of
\* one-letter strings, so that case conversion is computed letter by letter.
LowerLetters == <<"a","b","c","d","e","f","g","h","i","j","k","l","m",
                  "n","o","p","q","r","s","t","u","v","w","x","y","z">>

UpperLetters == <<"A","B","C","D","E","F","G","H","I","J","K","L","M",
                  "N","O","P","Q","R","S","T","U","V","W","X","Y","Z">>

IsLowerLetter(c) == \E i \in 1..26 : LowerLetters[i] = c

IsUpperLetter(c) == \E i \in 1..26 : UpperLetters[i] = c

toLowerCaseMutant(s) == s

toLowerCase(s) ==
    [i \in 1..Len(s) |->
        IF IsUpperLetter(s[i])
        THEN LowerLetters[CHOOSE k \in 1..26 : UpperLetters[k] = s[i]]
        ELSE s[i]]

toUpperCase(s) ==
    [i \in 1..Len(s) |->
        IF IsLowerLetter(s[i])
        THEN UpperLetters[CHOOSE k \in 1..26 : LowerLetters[k] = s[i]]
        ELSE s[i]]

\* java.math.BigDecimal: unscaled value and scale, value = unscaled / 10^scale.
RECURSIVE Pow10(_)
Pow10(n) == IF n = 0 THEN 1 ELSE 10 * Pow10(n - 1)

Dec(u, s) == [unscaled |-> u, scale |-> s]

\* BigDecimal.multiply: unscaled values multiply, scales add.
multiply(x, y) == Dec(x.unscaled * y.unscaled, x.scale + y.scale)

\* Integer division rounding toward zero.
TruncDiv(a, b) == IF a >= 0 THEN a \div b ELSE -((-a) \div b)

\* BigDecimal.longValue: the fraction is discarded (toward zero).  The values
\* of the model stay far inside the 64-bit range, so no wrap-around occurs.
longValue(x) == TruncDiv(x.unscaled, Pow10(x.scale))

\* new BigDecimal(long)
BigDecimalOfLong(n) == Dec(n, 0)

divideMutant(x, y) == Dec(x.unscaled \div y.unscaled, 0)

\* BigDecimal.divide(BigDecimal) for an integer dividend and the divisor 100:
\* the exact quotient, with the smallest scale >= the preferred scale
\* (x.scale - y.scale = 0) that represents it.
divide(x, y) ==
    LET s == CHOOSE k \in 0..2 :
                 /\ (x.unscaled * Pow10(k)) % y.unscaled = 0
                 /\ \A j \in 0..(k - 1) : (x.unscaled * Pow10(j)) % y.unscaled # 0
    IN Dec((x.unscaled * Pow10(s)) \div y.unscaled, s)

\* BigDecimal.compareTo(..) == 0 and > 0: comparison of the numeric values.
NumEq(x, y) == x.unscaled * Pow10(y.scale) = y.unscaled * Pow10(x.scale)

NumGt(x, y) == x.unscaled * Pow10(y.scale) > y.unscaled * Pow10(x.scale)

\* java.util.UUID.toString(): the textual form of the identifier.
UUIDtoString(u) == <<"uuid-text", u>>

\* ----------------------------------------------------------- error kinds
PAYMENT_FAILED == "PAYMENT_FAILED"

INVALID_REQUEST == "INVALID_REQUEST"

Returned(v) == [status |-> "returned", exception |-> "none", kind |-> "none", value |-> v]

Thrown(exc, k) == [status |-> "thrown", exception |-> exc, kind |-> k, value |-> NULL]

\* Result of running the body of an operation: the wire calls it issued and
\* what the caller receives.
Outcome(w, r) == [wire |-> w, result |-> r]

\* ---------------------------------------------------- client configuration
ConfiguredKey == "sk_configured"

\* initializeStripe(): sets the process-wide API key on first use, no-op later.
initializeStripe(key) == IF key = NULL THEN ConfiguredKey ELSE key

\* The processor's reply to one wire call: without an API key the client
\* library raises an authentication failure, otherwise the reply is the
\* remote side's choice.
ProcReplies ==
    { [ok |-> TRUE, echo |-> TRUE, cause |-> "none"],
      [ok |-> TRUE, echo |-> FALSE, cause |-> "none"],
      [ok |-> FALSE, echo |-> FALSE, cause |-> "CardException"] }

Processor(key, proc) ==
    IF key = NULL
    THEN [ok |-> FALSE, echo |-> FALSE, cause |-> "AuthenticationException"]
    ELSE proc

\* ------------------------------------- createPaymentIntentWithTransfer
TransferMetadataMutant(a) ==
    [booking_id |-> UUIDtoString(a.bookingId),
     payment_method |-> a.paymentMethod,
     destination_account |-> a.paymentMethod]

\* Map.of("booking_id", ..., "payment_method", ..., "destination_account", ...)
TransferMetadata(a) ==
    [booking_id |-> UUIDtoString(a.bookingId),
     payment_method |-> a.paymentMethod,
     destination_account |-> a.destinationAccountId]

\* Map.of rejects null values with a NullPointerException.
TransferMetadataThrows(a) ==
    a.paymentMethod = NULL \/ a.destinationAccountId = NULL

TransferParams(a) ==
    [amount |-> longValue(multiply(a.amount, Dec(100, 0))),
     currency |-> toLowerCase(a.currency),
     description |-> a.description,
     metadata |-> TransferMetadata(a),
     transfer_data |-> [destination |-> a.destinationAccountId],
     application_fee_amount |-> longValue(multiply(a.appFeeAmount, Dec(100, 0))),
     automatic_payment_methods |-> [enabled |-> TRUE]]

\* com.stripe.model.PaymentIntent returned by PaymentIntent.create(params).
StripeIntent(params, proc) ==
    [id |-> "pi_1",
     clientSecret |-> "pi_1_secret",
     status |-> "requires_payment_method",
     amount |-> IF proc.echo THEN params.amount ELSE params.amount + 1,
     currency |-> params.currency,
     paymentMethod |-> NULL,
     description |-> params.description,
     created |-> 1700000000]

\* Mapping of the processor's intent to the local PaymentIntent.
IntentOf(si) ==
    [id |-> si.id,
     clientSecret |-> si.clientSecret,
     status |-> si.status,
     amount |-> divide(BigDecimalOfLong(si.amount), Dec(100, 0)),
     currency |-> toUpperCase(si.currency),
     paymentMethod |-> si.paymentMethod,
     description |-> si.description,
     createdAt |-> [epochSecond |-> si.created]]

\* catch (StripeException e) of createPaymentIntentWithTransfer
TransferCatch(cause) == Thrown("PaymentException", PAYMENT_FAILED)

\* Body of createPaymentIntentWithTransfer after initializeStripe().
TransferBody(a, key, proc) ==
    IF TransferMetadataThrows(a)
    THEN Outcome(<<>>, Thrown("NullPointerException", "none"))
    ELSE LET params == TransferParams(a)
             reply == Processor(key, proc)
             call == [type |-> "payment_intent.create", key |-> key, params |-> params]
         IN IF reply.ok
            THEN Outcome(<<call>>, Returned(IntentOf(StripeIntent(params, reply))))
            ELSE Outcome(<<call>>, TransferCatch(reply.cause))

\* ------------------------------------------------- createPaymentIntent
\* catch (StripeException e) of createPaymentIntent
PlainCatch(cause) == Thrown("PaymentException", PAYMENT_FAILED)

\* Parameters of a plain intent: amount in minor units, lower-case currency.
PlainParams(a) ==
    [amount |-> longValue(multiply(a.amount, Dec(100, 0))),
     currency |-> toLowerCase(a.currency),
     description |-> a.description]

\* Body of createPaymentIntent after initialization.
PlainBody(a, key, proc) ==
    LET params == PlainParams(a)
        reply == Processor(key, proc)
        call == [type |-> "payment_intent.create", key |-> key, params |-> params]
    IN IF reply.ok
       THEN Outcome(<<call>>, Returned(IntentOf(StripeIntent(params, reply))))
       ELSE Outcome(<<call>>, PlainCatch(reply.cause))

\* ------------------------------------------------ createConnectAccount
\* A null String argument.
NullString == <<NULL>>

\* The constants of the enum AccountCreateParams.Type.
AccountTypeNames ==
    { <<"C","U","S","T","O","M">>,
      <<"E","X","P","R","E","S","S">>,
      <<"S","T","A","N","D","A","R","D">> }

\* AccountCreateParams.Type.valueOf(accountType.toUpperCase()): the name of
\* the exception it raises, or "none" when the constant exists.
AccountTypeValueOfThrows(accountType) ==
    IF accountType = NullString THEN "NullPointerException"
    ELSE IF toUpperCase(accountType) \notin AccountTypeNames THEN "IllegalArgumentException"
    ELSE "none"

ConnectParams(a) ==
    [type |-> toUpperCase(a.accountType),
     email |-> a.email,
     capabilities |-> [card_payments |-> [requested |-> TRUE],
                       transfers |-> [requested |-> TRUE]]]

ConnectCatchMutant(cause) == Thrown("PaymentException", PAYMENT_FAILED)

\* catch (StripeException e) of createConnectAccount
ConnectCatch(cause) == Thrown("PaymentException", INVALID_REQUEST)

\* Body of createConnectAccount after initializeStripe().
ConnectBody(a, key, proc) ==
    LET exc == AccountTypeValueOfThrows(a.accountType)
    IN IF exc # "none"
       THEN Outcome(<<>>, Thrown(exc, "none"))
       ELSE LET params == ConnectParams(a)
                reply == Processor(key, proc)
                call == [type |-> "account.create", key |-> key, params |-> params]
            IN IF reply.ok
               THEN Outcome(<<call>>, Returned("acct_new"))
               ELSE Outcome(<<call>>, ConnectCatch(reply.cause))

\* --------------------------------------------------- createAccountLink
LinkParams(a) ==
    [account |-> a.accountId,
     refresh_url |-> a.refreshUrl,
     return_url |-> a.returnUrl,
     type |-> "ACCOUNT_ONBOARDING"]

\* catch (StripeException e) of createAccountLink
LinkCatch(cause) == Thrown("PaymentException", INVALID_REQUEST)

LinkBodyMutant(a, key, proc) ==
    LET params == LinkParams(a)
        reply == Processor(key, proc)
        call == [type |-> "account_link.create", key |-> key, params |-> params]
    IN IF reply.ok
       THEN Outcome(<<call>>, Returned("https://connect.stripe.com/setup/s/1"))
       ELSE Outcome(<<call, call>>, Returned("https://connect.stripe.com/setup/s/1"))

\* Body of createAccountLink after initializeStripe().
LinkBody(a, key, proc) ==
    LET params == LinkParams(a)
        reply == Processor(key, proc)
        call == [type |-> "account_link.create", key |-> key, params |-> params]
    IN IF reply.ok
       THEN Outcome(<<call>>, Returned("https://connect.stripe.com/setup/s/1"))
       ELSE Outcome(<<call>>, LinkCatch(reply.cause))

\* ------------------------------------------------------------- inputs
EUR == <<"E","U","R">>

Currencies == { EUR, <<"e","u","r">>, <<"U","s","d">> }

\* The amounts of the documented scenarios, 100.00, 10.00, 50.00, 60.00, and 12.50.
ScenarioAmounts == { Dec(10000, 2), Dec(1000, 2), Dec(5000, 2), Dec(6000, 2), Dec(1250, 2) }

Amounts ==
    ScenarioAmounts \cup { Dec(u, s) : u \in (-1)..MaxUnscaled, s \in 0..MaxScale }

Fees == ScenarioAmounts \cup { Dec(u, MaxScale) : u \in 0..MaxUnscaled }

BookingIds == {1, 2}

\* Split-payment requests: every amount of the range, every fee of the range,
\* and every booking, currency, payment method and destination, each with
\* the scenario values for the rest.
TransferArgs ==
    [bookingId : {1}, amount : Amounts, currency : {EUR},
     paymentMethod : {"card"}, description : {"Booking payment"},
     destinationAccountId : {"acct_123"}, appFeeAmount : {Dec(1000, 2)}]
    \cup
    [bookingId : {1}, amount : {Dec(5000, 2)}, currency : {EUR},
     paymentMethod : {"card"}, description : {"Booking payment"},
     destinationAccountId : {"acct_123"}, appFeeAmount : Fees]
    \cup
    [bookingId : BookingIds, amount : {Dec(10000, 2)}, currency : Currencies,
     paymentMethod : {"card", NULL}, description : {"Booking payment"},
     destinationAccountId : {"acct_123", "acct_456"}, appFeeAmount : {Dec(1000, 2)}]

PlainArgs ==
    [bookingId : BookingIds, amount : {Dec(10000, 2), Dec(1, MaxScale)}, currency : Currencies,
     paymentMethod : {"card"}, description : {"Booking payment"}]

ConnectArgs ==
    [email : {"supplier@example.com"},
     accountType : { <<"e","x","p","r","e","s","s">>, <<"S","t","a","n","d","a","r","d">>,
                     <<"C","U","S","T","O","M">>, <<"p","r","e","m","i","u","m">>,
                     NullString }]

LinkArgs ==
    [accountId : {"acct_1", "acct_123"}, refreshUrl : {"https://app/refresh"},
     returnUrl : {"https://app/return"}]

\* ------------------------------------------------ UserService.updateProfile
SUPPLIER_SUBSCRIBER == "SUPPLIER_SUBSCRIBER"

ASSOCIATION_MANAGER == "ASSOCIATION_MANAGER"

\* The fields of UpdateProfileRequest that the mapper copies.
RequestFields ==
    {"fullName", "photoUrl", "birthDate", "gender", "bio", "location", "phoneNumber",
     "drivingLicenseCategory", "occupation", "bankName", "bankAccountIban", "bankAccountBic"}

EnumFields == {"gender", "drivingLicenseCategory", "occupation"}

\* The constant names of Gender, DrivingLicenseCategory and WorkStatus.
EnumNames(f) ==
    CASE f = "gender" -> {"MALE", "FEMALE"}
      [] f = "drivingLicenseCategory" -> {"B"}
      [] f = "occupation" -> {"EMPLOYED"}

\* Enum.valueOf(name): the constant of that name.
valueOf(f, name) == <<f, name>>

\* Enum.name()
nameOf(c) == c[2]

\* A user without profile: user.getProfile() == null.
NoProfile == [userId |-> NULL]

\* new UserProfile(user.getId())
NewUserProfile(userId) ==
    [f \in RequestFields \cup {"userId", "stripeConnectAccountId"} |->
        IF f = "userId" THEN userId ELSE NULL]

\* Enum.valueOf raises IllegalArgumentException for a name that is no constant.
MapperThrows(request) ==
    \E f \in EnumFields : request[f] # NULL /\ request[f] \notin EnumNames(f)

\* UserMapper.updateUserProfileFromRequest: every non-null request field
\* overwrites the profile field.
updateUserProfileFromRequest(request, profile) ==
    [f \in DOMAIN profile |->
        IF f \in RequestFields /\ request[f] # NULL
        THEN IF f \in EnumFields THEN valueOf(f, request[f]) ELSE request[f]
        ELSE profile[f]]

\* UserMapper.toProfileResponse
toProfileResponse(profile) ==
    [f \in DOMAIN profile |->
        IF f \in EnumFields /\ profile[f] # NULL THEN nameOf(profile[f]) ELSE profile[f]]

BankDetailsRequestedMutant(request) ==
    request.bankName # NULL /\ request.bankAccountIban # NULL /\ request.bankAccountBic # NULL

\* request.getBankName() != null || getBankAccountIban() != null || getBankAccountBic() != null
BankDetailsRequested(request) ==
    request.bankName # NULL \/ request.bankAccountIban # NULL \/ request.bankAccountBic # NULL

\* user.getRole() != SUPPLIER_SUBSCRIBER && user.getRole() != ASSOCIATION_MANAGER
BankDetailsForbidden(role) == role # SUPPLIER_SUBSCRIBER /\ role # ASSOCIATION_MANAGER

WithoutBankDetails(profile) ==
    [profile EXCEPT !.bankName = NULL, !.bankAccountIban = NULL, !.bankAccountBic = NULL]

\* What one call does: the repository afterwards, whether save was invoked,
\* the profile entity in memory and the result.  The method is transactional:
\* a call that throws leaves the repository as it was.
Updated(repo, saved, entity, result) ==
    [users |-> repo, saved |-> saved, entity |-> entity, result |-> result]

updateProfile(repo, userId, request, valid) ==
    IF userId \notin DOMAIN repo
    THEN Updated(repo, FALSE, NoProfile, Thrown("IllegalArgumentException", "User not found"))
    ELSE IF ~valid
    THEN Updated(repo, FALSE, repo[userId].profile, Thrown("ValidationException", "validateProfileUpdate"))
    ELSE LET user == repo[userId]
             profile == IF user.profile = NoProfile THEN NewUserProfile(userId)
                                                    ELSE user.profile
         IN IF MapperThrows(request)
            THEN Updated(repo, FALSE, profile, Thrown("IllegalArgumentException", "valueOf"))
            ELSE LET mapped == updateUserProfileFromRequest(request, profile)
                 IN IF BankDetailsRequested(request) /\ BankDetailsForbidden(user.role)
                    THEN Updated(repo, FALSE, WithoutBankDetails(mapped),
                                 Thrown("IllegalArgumentException",
                                        "Only Suppliers and Association Managers can configure payout bank details"))
                    ELSE Updated([repo EXCEPT ![userId].profile = mapped], TRUE, mapped,
                                 Returned(toProfileResponse(mapped)))

UserIds == {"u1", "u2", "u3", "u4"}

InitialUsers ==
    [u \in UserIds |->
        CASE u = "u1" -> [role |-> "TRAVELER", profile |-> NoProfile]
          [] u = "u2" -> [role |-> SUPPLIER_SUBSCRIBER,
                          profile |-> [NewUserProfile("u2") EXCEPT !.fullName = "Sam Supplier"]]
          [] u = "u3" -> [role |-> ASSOCIATION_MANAGER, profile |-> NoProfile]
          [] u = "u4" -> [role |-> "TRAVELER",
                          profile |-> [NewUserProfile("u4") EXCEPT !.fullName = "Tim Traveler"]]]

NoFields == [f \in RequestFields |-> NULL]

\* Which bank fields a request sets: none, one of them, or all three.
BankParts ==
    { [bankName |-> NULL, bankAccountIban |-> NULL, bankAccountBic |-> NULL],
      [bankName |-> "Bank A", bankAccountIban |-> NULL, bankAccountBic |-> NULL],
      [bankName |-> NULL, bankAccountIban |-> "DE89370400440532013000", bankAccountBic |-> NULL],
      [bankName |-> NULL, bankAccountIban |-> NULL, bankAccountBic |-> "COBADEFF"],
      [bankName |-> "Bank A", bankAccountIban |-> "DE89370400440532013000",
       bankAccountBic |-> "COBADEFF"] }

Requests ==
    { [base EXCEPT !.bankName = b.bankName, !.bankAccountIban = b.bankAccountIban,
                   !.bankAccountBic = b.bankAccountBic] :
        base \in { NoFields,
                   [NoFields EXCEPT !.fullName = "Ann", !.gender = "FEMALE",
                                    !.occupation = "EMPLOYED",
                                    !.drivingLicenseCategory = "B"],
                   [NoFields EXCEPT !.gender = "unknown"] },
        b \in BankParts }

\* ------------------------------------------- update_stripe_gateway.py
\* The text of a file is a sequence of symbols: line feed, the indentation
\* of a line, a closing brace, and one symbol for each other piece of text.
LF == "\n"

\* create_pi_marker_end: the throw statement of createPaymentIntent and the
\* two indented braces that close its catch block and the method.
create_pi_marker_end == <<"throw-payment-intent", LF, " ", "}", LF, " ", "}">>

\* create_pi_transfer: the catch line, the marker text again, and the method
\* createPaymentIntentWithTransfer.
create_pi_transfer ==
    <<" ", "catch", LF>> \o create_pi_marker_end
    \o <<LF, LF, " ", "createPaymentIntentWithTransfer", LF, " ", "}">>

\* connect_methods: createConnectAccount, createAccountLink and the closing
\* brace of the class.
connect_methods ==
    <<" ", "createConnectAccount", LF, " ", "}", LF, LF,
      " ", "createAccountLink", LF, " ", "}", LF, "}">>

\* str.find(sub, start): the lowest 0-based index >= start at which sub
\* occurs, or -1.
find(content, sub, start) ==
    LET hits == { i \in start..(Len(content) - Len(sub)) :
                    \A k \in 1..Len(sub) : content[i + k] = sub[k] }
    IN IF hits = {} THEN -1
       ELSE CHOOSE i \in hits : \A j \in hits : i <= j

\* content[a:b]
Slice(content, a, b) == SubSeq(content, a + 1, b)

\* replace_in_file: the return value and the text of the file afterwards.
replace_in_file(content, start_marker, end_marker, replacement) ==
    LET start_index == find(content, start_marker, 0)
    IN IF start_index = -1
       THEN [ok |-> FALSE, content |-> content]
       ELSE LET end_index == find(content, end_marker, start_index + Len(start_marker))
            IN IF end_index = -1
               THEN [ok |-> FALSE, content |-> content]
               ELSE [ok |-> TRUE,
                     content |-> Slice(content, 0, start_index) \o replacement
                                 \o Slice(content, end_index + Len(end_marker), Len(content))]

\* Pieces of gateway source text: other code, the catch block of
\* createPaymentIntent, an indented closing brace, the closing brace of a
\* class at the start of a line.
Chunks ==
    { <<" ", "code", LF>>,
      <<" ", "catch", LF>> \o create_pi_marker_end,
      <<LF, " ", "}">>,
      <<LF, "}">> }

RECURSIVE Flatten(_)
Flatten(cs) == IF cs = <<>> THEN <<>> ELSE Head(cs) \o Flatten(Tail(cs))

GatewayFiles ==
    { Flatten(cs) : cs \in UNION { [1..n -> Chunks] : n \in 1..MaxChunks } }

\* ------------------------------------- finalize_media_centralization.py
\* A line of a file, and the content of an injection, is a sequence of
\* symbols as above.
Whitespace == {" ", LF}

\* str.strip(): the text without leading and trailing whitespace.
RECURSIVE lstrip(_)
lstrip(t) == IF t # <<>> /\ Head(t) \in Whitespace THEN lstrip(Tail(t)) ELSE t

RECURSIVE rstrip(_)
rstrip(t) ==
    IF t # <<>> /\ t[Len(t)] \in Whitespace THEN rstrip(SubSeq(t, 1, Len(t) - 1)) ELSE t

strip(t) == rstrip(lstrip(t))

\* list.insert(i, x): before the element at index i, at the end when i is
\* beyond the list, counted from the end when i is negative.
insert(lines, i, x) ==
    LET at == IF i < 0 THEN (IF Len(lines) + i < 0 THEN 0 ELSE Len(lines) + i)
              ELSE (IF i > Len(lines) THEN Len(lines) ELSE i)
    IN SubSeq(lines, 1, at) \o <<x>> \o SubSeq(lines, at + 1, Len(lines))

\* The loop over range(len(lines) - 1, -1, -1): the last line whose stripped
\* text is "}" becomes content + "}\n".
ReplaceLastBrace(lines, content) ==
    LET braces == { i \in 1..Len(lines) : strip(lines[i]) = <<"}">> }
    IN IF braces = {} THEN lines
       ELSE LET i == CHOOSE b \in braces : \A c \in braces : c <= b
            IN [lines EXCEPT ![i] = content \o <<"}", LF>>]

RECURSIVE sortedMutant(_)
sortedMutant(keys) ==
    IF keys = {} THEN <<>>
    ELSE LET k == CHOOSE x \in keys : \A y \in keys : x <= y
         IN <<k>> \o sortedMutant(keys \ {k})

\* sorted(injections.items(), key=lambda x: x[0], reverse=True): the line
\* numbers in descending order.
RECURSIVE sorted(_)
sorted(keys) ==
    IF keys = {} THEN <<>>
    ELSE LET k == CHOOSE x \in keys : \A y \in keys : y <= x
         IN <<k>> \o sorted(keys \ {k})

\* The body of the for loop for the injections in the given order.
RECURSIVE ApplyInjections(_, _, _)
ApplyInjections(lines, order, injections) ==
    IF order = <<>> THEN lines
    ELSE LET line_num == Head(order)
             content == injections[line_num]
         IN ApplyInjections(IF line_num = -1 THEN ReplaceLastBrace(lines, content)
                                             ELSE insert(lines, line_num, content),
                            Tail(order), injections)

\* update_file: the lines written back to the file.
update_file(lines, injections) ==
    ApplyInjections(lines, sorted(DOMAIN injections), injections)

\* Lines of a service source file.
SourceLines == { <<" ", "code", LF>>, <<"}", LF>>, <<" ", "}", LF>> }

SourceFiles == UNION { [1..n -> SourceLines] : n \in 0..MaxLines }

\* Contents injected at a line number, and the content keyed -1.
LineContents == { <<" ", "inject-a", LF>>, <<" ", "inject-b", LF>>, <<" ", "}", LF>> }

EndContents == { <<" ", "validateMediaAsset", LF>> }

\* The injections of a file: line numbers within the file, and -1.
InjectionsOf(lines) ==
    UNION { { f \in [K -> LineContents \cup EndContents] :
                \A k \in K : IF k = -1 THEN f[k] \in EndContents
                                       ELSE f[k] \in LineContents } :
            K \in SUBSET ((-1)..(Len(lines) - 1)) }

\* --------------------------------------------------------------- state
VARIABLES
    apiKey,        \* Stripe.apiKey, the process-wide client configuration
    intentCalls,   \* intent-create calls the processor has received
    accountCalls,  \* account-create calls the processor has received
    linkCalls,     \* account-link-create calls the processor has received
    invocations,   \* gateway operations invoked so far
    last,          \* the latest completed invocation: arguments, wire calls, result
    configs,       \* the values that have been assigned to the client configuration
    threads,       \* the concurrent callers: position, arguments, wire calls, result
    users,         \* userRepository: the saved users with role and profile
    saveCount,     \* invocations of userRepository.save
    updates,       \* invocations of updateProfile
    lastUpdate,    \* the latest updateProfile call: user, request, entity, result
    patch,         \* run of update_stripe_gateway.py: position, file text, return values
    media          \* call of update_file: position, lines of the file, injections

gatewayVars == <<apiKey, intentCalls, accountCalls, linkCalls, invocations, last, configs, threads>>

profileVars == <<users, saveCount, updates, lastUpdate>>

scriptVars == <<patch, media>>

vars == <<apiKey, intentCalls, accountCalls, linkCalls, invocations, last, configs, threads,
          users, saveCount, updates, lastUpdate, patch, media>>

Threads == 1..NumThreads

IdleThread ==
    [pc |-> "idle", op |-> "none", args |-> NULL, seen |-> "unread", trace |-> <<>>,
     wire |-> <<>>, cause |-> "none", result |-> [status |-> "pending"]]

CountType(w, ty) == Cardinality({ i \in 1..Len(w) : w[i].type = ty })

\* The record of one invocation; procFailed tells whether a processor call
\* was issued and failed.
Completed(op, a, key, proc, out) ==
    [op |-> op, args |-> a, wire |-> out.wire,
     reply |-> Processor(key, proc),
     procFailed |-> (out.wire # <<>> /\ ~Processor(key, proc).ok),
     result |-> out.result]

Record(op, a, key, proc, out) ==
    /\ apiKey' = key
    /\ intentCalls' = intentCalls + CountType(out.wire, "payment_intent.create")
    /\ accountCalls' = accountCalls + CountType(out.wire, "account.create")
    /\ linkCalls' = linkCalls + CountType(out.wire, "account_link.create")
    /\ invocations' = invocations + 1
    /\ last' = Completed(op, a, key, proc, out)
    /\ configs' = configs \cup {key}
    /\ UNCHANGED threads
    /\ UNCHANGED profileVars
    /\ UNCHANGED scriptVars

\* The services before their first call.
ServicesInit ==
    /\ apiKey = NULL
    /\ intentCalls = 0
    /\ accountCalls = 0
    /\ linkCalls = 0
    /\ invocations = 0
    /\ last = [op |-> "none"]
    /\ configs = {}
    /\ threads = [t \in Threads |-> IdleThread]
    /\ users = InitialUsers
    /\ saveCount = 0
    /\ updates = 0
    /\ lastUpdate = [userId |-> "none"]

Init ==
    /\ ServicesInit
    /\ patch = [pc |-> "none"]
    /\ media = [pc |-> "none"]

CreatePaymentIntent ==
    /\ invocations < MaxInvocations
    /\ \E a \in PlainArgs, proc \in ProcReplies :
         LET key == initializeStripe(apiKey)
         IN Record("createPaymentIntent", a, key, proc, PlainBody(a, key, proc))

CreatePaymentIntentWithTransfer ==
    /\ invocations < MaxInvocations
    /\ \E a \in TransferArgs, proc \in ProcReplies :
         LET key == initializeStripe(apiKey)
         IN Record("createPaymentIntentWithTransfer", a, key, proc, TransferBody(a, key, proc))

CreateConnectAccount ==
    /\ invocations < MaxInvocations
    /\ \E a \in ConnectArgs, proc \in ProcReplies :
         LET key == initializeStripe(apiKey)
         IN Record("createConnectAccount", a, key, proc, ConnectBody(a, key, proc))

CreateAccountLink ==
    /\ invocations < MaxInvocations
    /\ \E a \in LinkArgs, proc \in ProcReplies :
         LET key == initializeStripe(apiKey)
         IN Record("createAccountLink", a, key, proc, LinkBody(a, key, proc))

Next ==
    \/ CreatePaymentIntent
    \/ CreatePaymentIntentWithTransfer
    \/ CreateConnectAccount
    \/ CreateAccountLink

Spec == Init /\ [][Next]_vars

\* ------------------------------------------------- concurrent callers
\* Each caller thread runs one operation; the processor call is the only
\* point where it blocks, and the check and the assignment of
\* initializeStripe() are separate steps of the thread.
ConcOps == {"createPaymentIntentWithTransfer", "createConnectAccount", "createAccountLink"}

ConcArgs(op) ==
    CASE op = "createPaymentIntentWithTransfer" ->
           [bookingId : {1}, amount : {Dec(10000, 2)}, currency : {EUR},
            paymentMethod : {"card", NULL}, description : {"Booking payment"},
            destinationAccountId : {"acct_123"}, appFeeAmount : {Dec(1000, 2)}]
      [] op = "createConnectAccount" ->
           [email : {"supplier@example.com"},
            accountType : { <<"e","x","p","r","e","s","s">>, <<"p","r","e","m","i","u","m">> }]
      [] op = "createAccountLink" ->
           [accountId : {"acct_1"}, refreshUrl : {"https://app/refresh"},
            returnUrl : {"https://app/return"}]

Body(op, a, key, proc) ==
    CASE op = "createPaymentIntentWithTransfer" -> TransferBody(a, key, proc)
      [] op = "createConnectAccount" -> ConnectBody(a, key, proc)
      [] op = "createAccountLink" -> LinkBody(a, key, proc)

FirstStepMutant(op) == IF op = "createAccountLink" THEN "body" ELSE "initializeStripe"

\* The first statement of each operation is the call initializeStripe().
FirstStep(op) == "initializeStripe"

Invoke(t) ==
    /\ threads[t].pc = "idle"
    /\ \E op \in ConcOps : \E a \in ConcArgs(op) :
         threads' = [threads EXCEPT ![t] =
                        [IdleThread EXCEPT !.pc = FirstStep(op), !.op = op, !.args = a]]
    /\ UNCHANGED <<apiKey, intentCalls, accountCalls, linkCalls, invocations, last, configs, profileVars, scriptVars>>

\* initializeStripe(): the test whether the client is configured.
InitializeStripeCheck(t) ==
    /\ threads[t].pc = "initializeStripe"
    /\ threads' = [threads EXCEPT ![t].seen = apiKey,
                                  ![t].trace = Append(@, "initializeStripe"),
                                  ![t].pc = IF apiKey = NULL THEN "initializeStripe_set"
                                                             ELSE "body"]
    /\ UNCHANGED <<apiKey, intentCalls, accountCalls, linkCalls, invocations, last, configs, profileVars, scriptVars>>

\* initializeStripe(): the assignment of the configured key.
InitializeStripeSet(t) ==
    /\ threads[t].pc = "initializeStripe_set"
    /\ apiKey' = initializeStripe(threads[t].seen)
    /\ configs' = configs \cup {apiKey'}
    /\ threads' = [threads EXCEPT ![t].pc = "body"]
    /\ UNCHANGED <<intentCalls, accountCalls, linkCalls, invocations, last, profileVars, scriptVars>>

\* The rest of the operation: parameters, processor call, result or error.
RunBody(t) ==
    /\ threads[t].pc = "body"
    /\ \E proc \in ProcReplies :
         LET out == Body(threads[t].op, threads[t].args, apiKey, proc)
         IN /\ intentCalls' = intentCalls + CountType(out.wire, "payment_intent.create")
            /\ accountCalls' = accountCalls + CountType(out.wire, "account.create")
            /\ linkCalls' = linkCalls + CountType(out.wire, "account_link.create")
            /\ threads' = [threads EXCEPT
                             ![t].pc = "returned",
                             ![t].trace = Append(@, "body"),
                             ![t].wire = out.wire,
                             ![t].cause = IF out.wire = <<>> THEN "none"
                                          ELSE Processor(apiKey, proc).cause,
                             ![t].result = out.result]
    /\ UNCHANGED <<apiKey, invocations, last, configs, profileVars, scriptVars>>

NextConc ==
    \E t \in Threads :
        \/ Invoke(t)
        \/ InitializeStripeCheck(t)
        \/ InitializeStripeSet(t)
        \/ RunBody(t)

SpecConc == Init /\ [][NextConc]_vars

\* ------------------------------------------------ updateProfile calls
UpdateProfile ==
    /\ updates < MaxUpdates
    /\ \E userId \in UserIds \cup {"u9"}, request \in Requests, valid \in BOOLEAN :
         LET done == updateProfile(users, userId, request, valid)
         IN /\ users' = done.users
            /\ saveCount' = saveCount + (IF done.saved THEN 1 ELSE 0)
            /\ lastUpdate' = [userId |-> userId, request |-> request,
                              entity |-> done.entity, result |-> done.result]
    /\ updates' = updates + 1
    /\ UNCHANGED gatewayVars
    /\ UNCHANGED scriptVars

NextProfile == UpdateProfile

SpecProfile == Init /\ [][NextProfile]_vars

\* ----------------------------------------- update_stripe_gateway.py run
InitPatch ==
    /\ ServicesInit
    /\ \E f \in GatewayFiles :
         patch = [pc |-> "transfer", original |-> f, content |-> f, returns |-> <<>>]
    /\ media = [pc |-> "none"]

\* replace_in_file(path, create_pi_marker_end, create_pi_marker_end, create_pi_transfer)
ReplaceTransfer ==
    /\ patch.pc = "transfer"
    /\ LET r == replace_in_file(patch.content, create_pi_marker_end,
                                create_pi_marker_end, create_pi_transfer)
       IN patch' = [patch EXCEPT !.pc = "connect", !.content = r.content,
                                 !.returns = Append(@, r.ok)]
    /\ UNCHANGED <<gatewayVars, profileVars, media>>

\* replace_in_file(path, "\n}", "\n}", connect_methods)
ReplaceConnect ==
    /\ patch.pc = "connect"
    /\ LET r == replace_in_file(patch.content, <<LF, "}">>, <<LF, "}">>, connect_methods)
       IN patch' = [patch EXCEPT !.pc = "done", !.content = r.content,
                                 !.returns = Append(@, r.ok)]
    /\ UNCHANGED <<gatewayVars, profileVars, media>>

NextPatch == ReplaceTransfer \/ ReplaceConnect

SpecPatch == InitPatch /\ [][NextPatch]_vars

\* ------------------------------------------------------ update_file call
InitMedia ==
    /\ ServicesInit
    /\ patch = [pc |-> "none"]
    /\ \E f \in SourceFiles : \E inj \in InjectionsOf(f) :
         media = [pc |-> "call", original |-> f, injections |-> inj, lines |-> f]

\* update_file(path, injections): read, inject, write back.
UpdateFile ==
    /\ media.pc = "call"
    /\ media' = [media EXCEPT !.pc = "done",
                              !.lines = update_file(media.lines, media.injections)]
    /\ UNCHANGED <<gatewayVars, profileVars, patch>>

NextMedia == UpdateFile

SpecMedia == InitMedia /\ [][NextMedia]_vars

\* ------------------------------------------------------------- claims
IsTransfer(l) == l.op = "createPaymentIntentWithTransfer"

\* C1: a split payment whose applicationFeeAmount exceeds the amount fails
\* with InvalidRequest and leaves the count of intent-create calls unchanged.
C1_FeeAboveAmountRejected ==
    [][ ( /\ invocations' = invocations + 1
          /\ IsTransfer(last')
          /\ NumGt(last'.args.appFeeAmount, last'.args.amount) )
        => ( /\ last'.result.status = "thrown"
             /\ last'.result.kind = INVALID_REQUEST
             /\ intentCalls' = intentCalls ) ]_vars

\* The error kind the taxonomy assigns to a processor failure of an operation.
KindOfFailure(op) ==
    IF op \in {"createPaymentIntent", "createPaymentIntentWithTransfer"}
    THEN PAYMENT_FAILED
    ELSE INVALID_REQUEST

\* C2: when the processor call of an invocation fails, the caller receives a
\* PaymentException of kind PaymentFailed (intent operations) or
\* InvalidRequest (account operations), never a result or another kind.
C2_ProcessorFailureKind ==
    (last.op # "none" /\ last.procFailed)
    => ( /\ last.result.status = "thrown"
         /\ last.result.exception = "PaymentException"
         /\ last.result.kind = KindOfFailure(last.op) )

C2_Witness ==
    /\ last.op = "createConnectAccount"
    /\ last.procFailed
    /\ last.result.kind = INVALID_REQUEST

\* C3: createConnectAccount with an accountType that names no supported
\* account type fails with an InvalidRequest PaymentException before any
\* processor call.
C3_UnsupportedAccountTypeRejected ==
    ( /\ last.op = "createConnectAccount"
      /\ toUpperCase(last.args.accountType) \notin AccountTypeNames )
    => ( /\ last.wire = <<>>
         /\ last.result.status = "thrown"
         /\ last.result.exception = "PaymentException"
         /\ last.result.kind = INVALID_REQUEST )

\* C4: every split-payment intent sent to the processor carries exactly the
\* metadata keys booking_id, payment_method and destination_account with the
\* supplied values, and the transfer destination is the supplied account.
C4_TransferMetadata ==
    IsTransfer(last)
    => \A i \in 1..Len(last.wire) :
         LET p == last.wire[i].params
         IN /\ DOMAIN p.metadata = {"booking_id", "payment_method", "destination_account"}
            /\ p.metadata.booking_id = UUIDtoString(last.args.bookingId)
            /\ p.metadata.payment_method = last.args.paymentMethod
            /\ p.metadata.destination_account = last.args.destinationAccountId
            /\ p.transfer_data.destination = last.args.destinationAccountId

C4_Witness ==
    /\ IsTransfer(last)
    /\ Len(last.wire) = 1
    /\ last.args.bookingId = 2
    /\ last.args.destinationAccountId = "acct_456"
    /\ last.wire[1].params.metadata.destination_account = "acct_456"

\* C5: for a non-negative amount with two fractional digits the conversion
\* to minor units and back yields the same amount, and when the processor
\* echoes the minor-unit amount the returned intent has the requested amount.
C5_RoundTrip ==
    ( /\ IsTransfer(last)
      /\ last.args.amount.scale = 2
      /\ last.args.amount.unscaled >= 0 )
    => LET a == last.args.amount
           units == longValue(multiply(a, Dec(100, 0)))
       IN /\ NumEq(divide(BigDecimalOfLong(units), Dec(100, 0)), a)
          /\ (last.result.status = "returned" /\ last.reply.echo)
             => NumEq(last.result.value.amount, a)

C5_Witness ==
    /\ IsTransfer(last)
    /\ last.args.amount = Dec(1250, 2)
    /\ last.result.status = "returned"
    /\ last.reply.echo
    /\ last.result.value.amount = Dec(125, 1)

\* c is x times 100 with the fraction cut off.
IsTruncTimes100(c, x) ==
    LET n == x.unscaled * 100
        d == Pow10(x.scale)
    IN IF n >= 0
       THEN c * d <= n /\ n < (c + 1) * d
       ELSE c * d >= n /\ n > (c - 1) * d

SameLetter(lo, up) == \E k \in 1..26 : LowerLetters[k] = lo /\ UpperLetters[k] = up

\* w spells s in lower case.
IsLowerCaseOf(w, s) ==
    /\ Len(w) = Len(s)
    /\ \A i \in 1..Len(s) :
         /\ ~IsUpperLetter(w[i])
         /\ (w[i] = s[i] \/ SameLetter(w[i], s[i]))

\* w spells s in upper case.
IsUpperCaseOf(w, s) ==
    /\ Len(w) = Len(s)
    /\ \A i \in 1..Len(s) :
         /\ ~IsLowerLetter(w[i])
         /\ (w[i] = s[i] \/ SameLetter(s[i], w[i]))

\* C6: the wire call of a split payment carries amount x 100 and fee x 100
\* cut to integers and the currency in lower case, and the returned intent
\* carries the currency in upper case.
C6_WireUnitsAndCurrency ==
    (IsTransfer(last) /\ last.wire # <<>>)
    => LET p == last.wire[1].params
       IN /\ IsTruncTimes100(p.amount, last.args.amount)
          /\ IsTruncTimes100(p.application_fee_amount, last.args.appFeeAmount)
          /\ IsLowerCaseOf(p.currency, last.args.currency)
          /\ last.result.status = "returned"
             => IsUpperCaseOf(last.result.value.currency, last.args.currency)

C6_Witness ==
    /\ IsTransfer(last)
    /\ last.args.amount = Dec(10000, 2)
    /\ last.args.appFeeAmount = Dec(1000, 2)
    /\ last.args.currency = EUR
    /\ last.wire # <<>>
    /\ last.wire[1].params.amount = 10000
    /\ last.wire[1].params.application_fee_amount = 1000
    /\ last.wire[1].params.currency = <<"e","u","r">>
    /\ last.result.status = "returned"
    /\ last.result.value.currency = EUR

\* C9: an invocation issues at most one processor call (a split payment one
\* intent-create call that carries fee and destination, createAccountLink
\* exactly one call of type account onboarding), and a failed processor call
\* is surfaced as an error of the same invocation.
C9_SingleCallNoRetry ==
    [][ invocations' = invocations + 1
        => ( /\ Len(last'.wire) <= 1
             /\ (intentCalls' + accountCalls' + linkCalls')
                  - (intentCalls + accountCalls + linkCalls) = Len(last'.wire)
             /\ last'.procFailed => last'.result.status = "thrown"
             /\ (IsTransfer(last') /\ last'.wire # <<>>)
                => ( /\ intentCalls' = intentCalls + 1
                     /\ {"application_fee_amount", "transfer_data"}
                          \subseteq DOMAIN last'.wire[1].params )
             /\ last'.op = "createAccountLink"
                => ( /\ linkCalls' = linkCalls + 1
                     /\ Len(last'.wire) = 1
                     /\ last'.wire[1].type = "account_link.create"
                     /\ last'.wire[1].params.type = "ACCOUNT_ONBOARDING" ) ) ]_vars

C9_Witness ==
    /\ last.op = "createAccountLink"
    /\ last.procFailed
    /\ Len(last.wire) = 1
    /\ last.result.status = "thrown"
    /\ linkCalls = 1

\* C7: each operation ensures initialization before it does anything else,
\* no processor call is issued with an uninitialized client, and an
\* initialization of an initialized client leaves the configuration unchanged.
C7_InitializedBeforeCalls ==
    /\ [](\A t \in Threads :
            /\ threads[t].trace # <<>> => threads[t].trace[1] = "initializeStripe"
            /\ \A i \in 1..Len(threads[t].wire) : threads[t].wire[i].key # NULL)
    /\ [][apiKey # NULL => apiKey' = apiKey]_vars

C7_Witness ==
    \E t \in Threads, u \in Threads :
        /\ t # u
        /\ threads[t].pc = "returned" /\ Len(threads[t].wire) = 1
        /\ threads[t].seen = NULL
        /\ threads[u].pc = "returned" /\ Len(threads[u].wire) = 1
        /\ threads[u].seen = ConfiguredKey

\* C8: concurrent operations against an uninitialized client leave exactly
\* one configuration, and no operation fails for want of configuration.
C8_OneConfigurationNoRace ==
    /\ Cardinality(configs) <= 1
    /\ \A t \in Threads :
         threads[t].pc = "returned"
         => ( /\ apiKey = ConfiguredKey
              /\ configs = {ConfiguredKey}
              /\ threads[t].cause # "AuthenticationException"
              /\ \A i \in 1..Len(threads[t].wire) : threads[t].wire[i].key = ConfiguredKey )

C8_Witness ==
    /\ \A t \in Threads : threads[t].pc = "returned" /\ threads[t].seen = NULL
    /\ \E t \in Threads : threads[t].result.status = "returned"

BankFields == {"bankName", "bankAccountIban", "bankAccountBic"}

MayHoldBankDetails(role) == role \in {"SUPPLIER_SUBSCRIBER", "ASSOCIATION_MANAGER"}

\* C10: an updateProfile call with a bank field by a user who is neither
\* supplier nor association manager fails and does not invoke save, the saved
\* profile does not take the bank details of the request, and such a user's
\* saved profile never holds bank details.
C10_BankDetailsRestricted ==
    /\ [][ ( /\ updates' = updates + 1
             /\ lastUpdate'.userId \in DOMAIN users
             /\ ~MayHoldBankDetails(users[lastUpdate'.userId].role)
             /\ \E f \in BankFields : lastUpdate'.request[f] # "null-reference" )
           => ( /\ lastUpdate'.result.status = "thrown"
                /\ saveCount' = saveCount
                /\ \A f \in BankFields :
                     ( /\ lastUpdate'.request[f] # "null-reference"
                       /\ f \in DOMAIN users'[lastUpdate'.userId].profile )
                     => users'[lastUpdate'.userId].profile[f] # lastUpdate'.request[f] ) ]_vars
    /\ [](\A u \in DOMAIN users :
            ~MayHoldBankDetails(users[u].role)
            => \A f \in BankFields :
                 f \in DOMAIN users[u].profile => users[u].profile[f] = "null-reference")

C10_Witness ==
    /\ lastUpdate.userId = "u4"
    /\ lastUpdate.request.bankName = "Bank A"
    /\ lastUpdate.request.fullName = "Ann"
    /\ lastUpdate.result.status = "thrown"
    /\ lastUpdate.entity.bankName = NULL
    /\ lastUpdate.entity.fullName = "Ann"
    /\ users["u4"].profile.fullName = "Tim Traveler"
    /\ saveCount = 1

\* Number of places at which sub occurs in text.
Occurrences(text, sub) ==
    Cardinality({ i \in 0..(Len(text) - Len(sub)) :
                    \A k \in 1..Len(sub) : text[i + k] = sub[k] })

EndsWith(text, sub) ==
    /\ Len(text) >= Len(sub)
    /\ SubSeq(text, Len(text) - Len(sub) + 1, Len(text)) = sub

\* C11: on a file that contains the catch block of createPaymentIntent once
\* and ends with the closing brace of the class, both replace_in_file calls
\* replace the single occurrence of their marker: the file becomes the text
\* before the marker, the transfer replacement, the text up to the final
\* brace, and the Connect methods with the final brace.
C11_ScriptAddsMethods ==
    ( /\ patch.pc = "done"
      /\ Occurrences(patch.original, create_pi_marker_end) = 1
      /\ Occurrences(patch.original, <<"\n", "}">>) = 1
      /\ EndsWith(patch.original, <<"\n", "}">>) )
    => LET o == patch.original
           m == CHOOSE i \in 0..Len(o) :
                    SubSeq(o, i + 1, i + Len(create_pi_marker_end)) = create_pi_marker_end
       IN /\ patch.returns = <<TRUE, TRUE>>
          /\ patch.content =
                SubSeq(o, 1, m) \o create_pi_transfer
                \o SubSeq(o, m + Len(create_pi_marker_end) + 1, Len(o) - 2)
                \o connect_methods

\* A line that consists of one closing brace and whitespace around it.
IsBraceLine(t) ==
    \E i \in 1..Len(t) :
        /\ t[i] = "}"
        /\ \A j \in (1..Len(t)) \ {i} : t[j] \in {" ", "\n"}

\* The file the injections are meant to produce: in front of each original
\* line the content keyed by its 0-based index, and the last original brace
\* line replaced by the content keyed -1 followed by a closing brace.
RECURSIVE Injected(_, _, _)
Injected(original, injections, i) ==
    IF i > Len(original) THEN <<>>
    ELSE LET isLastBrace ==
                 /\ IsBraceLine(original[i])
                 /\ \A j \in (i + 1)..Len(original) : ~IsBraceLine(original[j])
             line == IF -1 \in DOMAIN injections /\ isLastBrace
                     THEN injections[-1] \o <<"}", "\n">>
                     ELSE original[i]
         IN (IF (i - 1) \in DOMAIN injections THEN <<injections[i - 1]>> ELSE <<>>)
            \o <<line>> \o Injected(original, injections, i + 1)

\* C12 as stated: for every set of injections with line numbers within the
\* file, each content stands immediately before the line that was at its
\* index, the original lines keep their order, and the content keyed -1
\* replaces only the last closing-brace line.
C12_InjectionsInPlace ==
    media.pc = "done"
    => media.lines = Injected(media.original, media.injections, 1)

NoBraceContent(injections) ==
    \A k \in DOMAIN injections : k # -1 => ~IsBraceLine(injections[k])

\* C12 amended: the same, for injections none of whose contents at a line
\* number is itself a closing-brace line.
C12_InjectionsInPlaceAmended ==
    (media.pc = "done" /\ NoBraceContent(media.injections))
    => media.lines = Injected(media.original, media.injections, 1)

C12_Witness ==
    /\ media.pc = "done"
    /\ DOMAIN media.injections = {-1, 0, 2}
    /\ NoBraceContent(media.injections)
    /\ media.injections[0] # media.injections[2]
    /\ media.original = << <<"}", "\n">>, <<" ", "}", "\n">>, <<" ", "code", "\n">> >>
    /\ Len(media.lines) = 5
    /\ media.lines[1] = media.injections[0]
    /\ media.lines[3] = media.injections[-1] \o <<"}", "\n">>
    /\ media.lines[4] = media.injections[2]

====
